---- MODULE Spec2Model ----
(***************************************************************************)
(* A model of the Zorvixe backend (src/backend/app.js): an Express app     *)
(* over a PostgreSQL store.  app.js holds two revisions of the server:     *)
(* revision 1 (lines 1-485) and revision 2 (lines 486-1102).  A process    *)
(* runs one revision; the database outlives the process.                   *)
(*                                                                         *)
(* Time is counted in ticks, TicksPerDay ticks to a calendar day; the      *)
(* server's and the store's clocks are the same clock, in UTC.             *)
(***************************************************************************)
EXTENDS Integers, Sequences, FiniteSets, TLC

VARIABLES
    rev,                          \* the revision of app.js the running process is
    now,                          \* the clock: NOW(), new Date()
    payment_links_columns,        \* the columns the payment_links table was created with
    payment_links,                \* rows of payment_links
    clients,                      \* rows of clients
    clients_id_seq,               \* the SERIAL sequence of clients.id
    client_links,                 \* rows of client_links
    payment_registrations,        \* rows of payment_registrations
    payment_registrations_id_seq, \* the SERIAL sequence of payment_registrations.id
    contacts,                     \* rows of contacts, in insertion order
    req,                          \* the request handled last, at the current instant
    resp,                         \* the response it was answered with
    queries,                      \* the pool.query calls made while handling it
    inflight                      \* the handlers suspended at an await, with their locals

vars == <<rev, now, payment_links_columns, payment_links, clients, clients_id_seq,
          client_links, payment_registrations, payment_registrations_id_seq,
          contacts, req, resp, queries, inflight>>

store == <<payment_links_columns, payment_links, clients, clients_id_seq,
           client_links, payment_registrations, payment_registrations_id_seq,
           contacts>>

----------------------------------------------------------------------------
(* Bounds of the model *)

MaxTime == 2          \* the clock stops at MaxTime
TicksPerDay == 1      \* clock ticks per calendar day
MaxTokens == 2        \* distinct values crypto.randomBytes can return
MaxClients == 1       \* values the clients.id sequence can hand out
MaxPayments == 2      \* values the payment_registrations.id sequence can hand out
MaxRefs == 2          \* distinct strings Math.random() can produce
MaxInflight == 2      \* requests that can be in flight at once

----------------------------------------------------------------------------
(* Values *)

\* SQL NULL in an integer column; JS undefined for a missing number
NULL == 0
\* JS undefined / SQL NULL for a missing text value
undefined == "undefined"

Revisions == {1, 2}

LegacyToken == [kind |-> "fixed", n |-> 0]
HexTokens == {[kind |-> "hex", n |-> i] : i \in 1..MaxTokens}
Tokens == HexTokens \cup {LegacyToken}

ExpiryDays == 1
DefaultAmount == 5000
DefaultDueDays == 7

Min(S) == CHOOSE m \in S : \A x \in S : m <= x

(* Text is a tuple of characters.  A value of a JSON body or a query string is
   a string, a number (its decimal text) or missing. *)
Str(chars) == [type |-> "string", chars |-> chars]
Num(chars) == [type |-> "number", chars |-> chars]
Undef == [type |-> "undefined", chars |-> <<>>]

\* the decimal text of a natural number: String(n), the text form pg sends
RECURSIVE Digits(_)
Digits(n) == IF n < 10 THEN <<ToString(n)>>
             ELSE Digits(n \div 10) \o <<ToString(n % 10)>>

\* !v of JavaScript
Falsy(v) == v.type = "undefined" \/ v.chars = <<>> \/ (v.type = "number" /\ v.chars = <<"0">>)

\* the characters \s matches and trim removes
Whitespace == {" ", "\t", "\n"}

\* String.prototype.trim
RECURSIVE TrimLeft(_)
TrimLeft(cs) == IF cs # <<>> /\ Head(cs) \in Whitespace THEN TrimLeft(Tail(cs)) ELSE cs

RECURSIVE TrimRight(_)
TrimRight(cs) == IF cs # <<>> /\ cs[Len(cs)] \in Whitespace
                 THEN TrimRight(SubSeq(cs, 1, Len(cs) - 1)) ELSE cs

Trim(cs) == TrimRight(TrimLeft(cs))

----------------------------------------------------------------------------
(* Responses *)

Json(status, body) == [status |-> status, body |-> body]

Failure(status, message) ==
    Json(status, [success |-> FALSE, message |-> message])

\* no request has been answered
Idle == Json(0, [success |-> TRUE])

\* the requests in flight; a slot without one is waiting for a request
Slots == 1..MaxInflight
Waiting == [pc |-> "idle"]

----------------------------------------------------------------------------
(* initializeDb *)

\* CREATE TABLE IF NOT EXISTS payment_links: the table keeps the columns it was
\* first created with
PaymentLinksColumnsOf(r) ==
    IF r = 1 THEN {"token", "active"} ELSE {"token"}

\* a variant with ON CONFLICT (token) DO UPDATE SET active = TRUE
SeedLegacyRowResetting(rows, columns) ==
    {l \in rows : l.token # LegacyToken}
        \cup {IF "active" \in columns THEN [token |-> LegacyToken, active |-> TRUE]
                                     ELSE [token |-> LegacyToken]}

\* INSERT INTO payment_links ... ON CONFLICT (token) DO NOTHING
SeedLegacyRow(rows, columns) ==
    IF \E l \in rows : l.token = LegacyToken
    THEN rows
    ELSE IF "active" \in columns
         THEN rows \cup {[token |-> LegacyToken, active |-> TRUE]}
         ELSE rows \cup {[token |-> LegacyToken]}

\* revision 2 is running, on a database that revision 1 or revision 2 created
Init ==
    /\ rev = 2
    /\ now = 0
    /\ \E first \in Revisions :
         /\ payment_links_columns = PaymentLinksColumnsOf(first)
         /\ payment_links = SeedLegacyRow({}, PaymentLinksColumnsOf(first))
    /\ clients = {}
    /\ clients_id_seq = 0
    /\ client_links = {}
    /\ payment_registrations = {}
    /\ payment_registrations_id_seq = 0
    /\ contacts = <<>>
    /\ req = [op |-> "none"]
    /\ resp = Idle
    /\ queries = 0
    /\ inflight = [s \in Slots |-> Waiting]

\* a process of revision r starts on the existing database and runs
\* initializeDb: every CREATE TABLE IF NOT EXISTS finds its table (revision 1
\* creates no clients and client_links, and has no route that uses them), and
\* the seeding INSERT of revision 1 names the active column: where the table
\* has none the statement throws and the catch logs it
Start(r) ==
    /\ rev' = r
    /\ payment_links' = IF r = 1 /\ "active" \notin payment_links_columns
                        THEN payment_links
                        ELSE SeedLegacyRow(payment_links, payment_links_columns)
    /\ req' = [op |-> "start", rev |-> r]
    /\ resp' = Idle
    /\ queries' = 0
    /\ inflight' = [s \in Slots |-> Waiting]
    /\ UNCHANGED <<now, payment_links_columns, clients, clients_id_seq, client_links,
                   payment_registrations, payment_registrations_id_seq, contacts>>

\* time passes; no request is being handled
Tick ==
    /\ now < MaxTime
    /\ now' = now + 1
    /\ req' = [op |-> "none"]
    /\ resp' = Idle
    /\ queries' = 0
    /\ UNCHANGED <<rev, inflight, store>>

----------------------------------------------------------------------------
(* GET /api/payment-link/:token *)

\* SELECT * FROM payment_links WHERE token = $1
PaymentLinksByToken(rows, token) == {l \in rows : l.token = token}

\* revision 1 answers with the row's active column (absent from the JSON when
\* the table has none); revision 2 answers active: true whatever is stored
PaymentLinkStatus(r, row) ==
    IF r = 2 THEN Json(200, [success |-> TRUE, active |-> TRUE])
    ELSE IF "active" \in DOMAIN row
         THEN Json(200, [success |-> TRUE, active |-> row.active])
         ELSE Json(200, [success |-> TRUE])

GetPaymentLink(token) ==
    /\ req' = [op |-> "get_payment_link", token |-> token]
    /\ queries' = 1
    /\ LET rows == PaymentLinksByToken(payment_links, token)
       IN resp' = IF rows = {}
                  THEN Failure(404, "Payment link not found")
                  ELSE PaymentLinkStatus(rev, CHOOSE l \in rows : TRUE)   \* token is UNIQUE
    /\ UNCHANGED <<rev, inflight, now, store>>

----------------------------------------------------------------------------
(* PUT /api/admin/payment-link/:token *)

\* UPDATE payment_links SET active = $1 WHERE token = $2
UpdatePaymentLinks(rows, token, active) ==
    {IF l.token = token THEN [l EXCEPT !.active = active] ELSE l : l \in rows}

SetLinkActive(token, active) ==
    /\ req' = [op |-> "set_link_active", token |-> token, active |-> active]
    /\ queries' = 1
    /\ IF "active" \notin payment_links_columns
       THEN \* column "active" does not exist: the query throws
            /\ resp' = Failure(500, "Failed to update link status")
            /\ UNCHANGED payment_links
       ELSE IF ~ \E l \in payment_links : l.token = token
       THEN /\ resp' = Failure(404, "Payment link not found")
            /\ UNCHANGED payment_links
       ELSE /\ payment_links' = UpdatePaymentLinks(payment_links, token, active)
            /\ resp' = Json(200, [success |-> TRUE,
                                  message |-> IF active THEN "Link activated"
                                                        ELSE "Link deactivated",
                                  paymentLink |-> [token |-> token, active |-> active]])
    /\ UNCHANGED <<rev, inflight, now, payment_links_columns, clients, clients_id_seq,
                   client_links, payment_registrations,
                   payment_registrations_id_seq, contacts>>

----------------------------------------------------------------------------
(* POST /api/admin/clients *)

ClientNames == {"Acme", undefined}

CreateClient(name) ==
    /\ rev = 2
    /\ clients_id_seq < MaxClients
    /\ req' = [op |-> "create_client", name |-> name]
    /\ queries' = 1
    /\ clients_id_seq' = clients_id_seq + 1
    /\ IF name = undefined
       THEN \* name VARCHAR(100) NOT NULL: the insert throws
            /\ resp' = Failure(500, "Failed to create client")
            /\ UNCHANGED clients
       ELSE LET row == [id |-> clients_id_seq + 1, name |-> name]
            IN /\ clients' = clients \cup {row}
               /\ resp' = Json(201, [success |-> TRUE, client |-> row])
    /\ UNCHANGED <<rev, inflight, now, payment_links_columns, payment_links, client_links,
                   payment_registrations, payment_registrations_id_seq, contacts>>

----------------------------------------------------------------------------
(* GET /api/admin/clients *)

\* the columns the query selects from a joined link
TokenColumns(l) ==
    [active_token |-> l.token, token_expiry |-> l.expires_at, token_active |-> l.active]

\* a variant with JOIN in place of LEFT JOIN
InnerJoinedRows(c, links, t) ==
    {[id |-> c.id, name |-> c.name, link |-> <<TokenColumns(l)>>] :
        l \in {x \in links : c.id = x.client_id /\ x.expires_at > t /\ x.active = TRUE}}

\* clients c LEFT JOIN client_links cl ON c.id = cl.client_id
\*   AND cl.expires_at > NOW() AND cl.active = true: the rows of one client.
\* link holds the three token columns, and is empty where they are NULL
JoinedRows(c, links, t) ==
    LET joined == {l \in links : c.id = l.client_id /\ l.expires_at > t /\ l.active = TRUE}
    IN IF joined = {}
       THEN {[id |-> c.id, name |-> c.name, link |-> <<>>]}
       ELSE {[id |-> c.id, name |-> c.name, link |-> <<TokenColumns(l)>>] : l \in joined}

\* ORDER BY c.created_at DESC: the orders the rows can come in.  created_at
\* grows with id, both being set at insertion; the rows of one client tie
ClientsNewestFirst(rows) ==
    {o \in [1..Cardinality(rows) -> rows] :
        /\ \A i, j \in 1..Cardinality(rows) : i # j => o[i] # o[j]
        /\ \A i, j \in 1..Cardinality(rows) : i < j => o[i].id >= o[j].id}

ListClientsResponses(cls, links, t) ==
    {Json(200, [success |-> TRUE, clients |-> o]) :
        o \in ClientsNewestFirst(UNION {JoinedRows(c, links, t) : c \in cls})}

ListClients ==
    /\ rev = 2
    /\ req' = [op |-> "list_clients"]
    /\ resp' \in ListClientsResponses(clients, client_links, now)
    /\ queries' = 1
    /\ UNCHANGED <<rev, inflight, now, store>>

----------------------------------------------------------------------------
(* POST /api/admin/client-links *)

\* the values req.body.clientId takes: absent, a stored client's id, another id
ClientIdInputs == {NULL} \cup (1..(MaxClients + 1))

\* expiresAt.setDate(expiresAt.getDate() + 1)
ExpiresAt(t) == t + ExpiryDays * TicksPerDay

\* the row INSERT INTO client_links (client_id, token, expires_at) stores; active
\* and created_at take their column defaults
NewClientLink(clientId, token, expiresAt, t) ==
    [client_id |-> clientId, token |-> token, active |-> TRUE,
     created_at |-> t, expires_at |-> expiresAt]

\* a variant without the UNIQUE constraint on token
ClientLinkInsertableAnyToken(links, cls, row) ==
    row.client_id # NULL => \E c \in cls : c.id = row.client_id

\* the constraints of client_links: token UNIQUE, client_id REFERENCES clients(id)
ClientLinkInsertable(links, cls, row) ==
    /\ ~ \E l \in links : l.token = row.token
    /\ row.client_id # NULL => \E c \in cls : c.id = row.client_id

\* a variant that revokes the client's earlier links on issuance
InsertClientLinkRevoking(links, row) ==
    {IF l.client_id = row.client_id THEN [l EXCEPT !.active = FALSE] ELSE l : l \in links}
        \cup {row}

InsertClientLink(links, row) == links \cup {row}

IssueLink(clientId, token) ==
    /\ rev = 2
    /\ req' = [op |-> "issue_link", clientId |-> clientId, token |-> token]
    /\ queries' = 1
    /\ LET expiresAt == ExpiresAt(now)
           row == NewClientLink(clientId, token, expiresAt, now)
       IN IF ClientLinkInsertable(client_links, clients, row)
          THEN /\ client_links' = InsertClientLink(client_links, row)
               /\ resp' = Json(201, [success |-> TRUE,
                                     link |-> <<"https://www.zorvixetechnologies.com/payment/", token>>,
                                     token |-> token,
                                     expiresAt |-> expiresAt])
          ELSE /\ resp' = Failure(500, "Failed to generate link")
               /\ UNCHANGED client_links
    /\ UNCHANGED <<rev, inflight, now, payment_links_columns, payment_links, clients,
                   clients_id_seq, payment_registrations,
                   payment_registrations_id_seq, contacts>>

----------------------------------------------------------------------------
(* GET /api/client-details/:token *)

\* a variant without the expiry comparison
UsableLinksIgnoringExpiry(links, token, t) ==
    {l \in links : l.token = token /\ l.active = TRUE}

\* SELECT * FROM client_links WHERE token = $1 AND active = true AND expires_at > NOW()
UsableLinks(links, token, t) ==
    {l \in links : l.token = token /\ l.active = TRUE /\ l.expires_at > t}

\* a variant without the WHERE clause
AllClients(cls, id) == cls

\* SELECT * FROM clients WHERE id = $1
ClientsById(cls, id) == {c \in cls : id # NULL /\ c.id = id}

\* SELECT * FROM payment_registrations WHERE client_id = $1
\* ORDER BY created_at DESC LIMIT 1: the rows the query may return first
LatestPayments(regs, clientId) ==
    LET mine == {p \in regs : p.client_id = Digits(clientId)}
    IN {p \in mine : \A q \in mine : q.created_at <= p.created_at}

\* the text "New Project"
NewProject == <<"N", "e", "w", " ", "P", "r", "o", "j", "e", "c", "t">>

ClientDetails(client, projectName, amount, dueDate) ==
    Json(200, [success |-> TRUE,
               client |-> [id |-> client.id, name |-> client.name,
                           clientName |-> client.name, clientId |-> client.id,
                           projectName |-> projectName, amount |-> amount,
                           dueDate |-> dueDate]])

\* the responses the handler can give for a token, from a store at time t
\* (several only when ORDER BY created_at ties)
VerifyResponses(links, cls, regs, token, t) ==
    LET linkRows == UsableLinks(links, token, t)
    IN IF linkRows = {}
       THEN {Failure(404, "Link not found or expired")}
       ELSE LET link == CHOOSE l \in linkRows : TRUE   \* token is UNIQUE
                clientRows == ClientsById(cls, link.client_id)
            IN IF clientRows = {}
               THEN {Failure(404, "Client not found")}
               ELSE LET client == CHOOSE c \in clientRows : TRUE   \* id is the key
                        paymentRows == LatestPayments(regs, client.id)
                    IN IF paymentRows = {}
                       THEN {ClientDetails(client, NewProject, DefaultAmount,
                                           t + DefaultDueDays * TicksPerDay)}
                       ELSE {ClientDetails(client,
                                           IF p.project_name = <<>> THEN NewProject
                                                                    ELSE p.project_name,
                                           p.amount, p.due_date) : p \in paymentRows}

VerifyLink(token) ==
    /\ rev = 2
    /\ req' = [op |-> "verify_link", token |-> token]
    /\ resp' \in VerifyResponses(client_links, clients, payment_registrations, token, now)
    /\ queries' = IF resp'.status = 200 THEN 3
                  ELSE IF UsableLinks(client_links, token, now) = {} THEN 1 ELSE 2
    /\ UNCHANGED <<rev, inflight, now, store>>

----------------------------------------------------------------------------
(* POST /api/payment/submit *)

Acme == <<"A", "c", "m", "e">>
Site == <<"S", "i", "t", "e">>

\* the bodies of the payment form: complete, or with clientName missing
PaymentBodies ==
    {[clientName |-> cn, projectName |-> Str(Site), clientId |-> Num(Digits(c)),
      amount |-> 1200, dueDate |-> MaxTime + 1, receiptUrl |-> Str(<<"r">>)] :
        cn \in {Str(Acme), Undef}, c \in 1..MaxClients}

\* Math.random().toString(36).substr(2, 6).toUpperCase()
RandomStrings == {Digits(i) : i \in 1..MaxRefs}

\* new Date().getFullYear()
EpochYear == 1970
FullYear(t) == EpochYear + t \div (365 * TicksPerDay)

\* `PAY-${year}-${randomString}`
ReferenceId(year, randomString) ==
    <<"P", "A", "Y", "-">> \o Digits(year) \o <<"-">> \o randomString

\* status VARCHAR(20) DEFAULT 'pending'
DefaultStatus == "pending"

\* the row INSERT INTO payment_registrations stores; id, status and created_at
\* take their column defaults
NewPayment(id, body, referenceId, t) ==
    [id |-> id, client_name |-> body.clientName.chars,
     project_name |-> body.projectName.chars, client_id |-> body.clientId.chars,
     amount |-> body.amount, due_date |-> body.dueDate,
     receipt_url |-> body.receiptUrl.chars, reference_id |-> referenceId,
     status |-> DefaultStatus, created_at |-> t]

\* a variant without the UNIQUE constraint on reference_id
PaymentInsertableAnyReference(regs, body, referenceId) ==
    /\ body.clientName.type # "undefined"
    /\ body.projectName.type # "undefined"
    /\ body.clientId.type # "undefined"
    /\ body.receiptUrl.type # "undefined"

\* the constraints of payment_registrations: NOT NULL columns, reference_id UNIQUE
PaymentInsertable(regs, body, referenceId) ==
    /\ body.clientName.type # "undefined"
    /\ body.projectName.type # "undefined"
    /\ body.clientId.type # "undefined"
    /\ body.receiptUrl.type # "undefined"
    /\ ~ \E p \in regs : p.reference_id = referenceId

SubmitPayment(body, randomString) ==
    /\ payment_registrations_id_seq < MaxPayments
    /\ req' = [op |-> "submit_payment", body |-> body]
    /\ queries' = 1
    /\ LET referenceId == ReferenceId(FullYear(now), randomString)
           row == NewPayment(payment_registrations_id_seq + 1, body, referenceId, now)
       IN /\ payment_registrations_id_seq' = payment_registrations_id_seq + 1
          /\ IF PaymentInsertable(payment_registrations, body, referenceId)
             THEN /\ payment_registrations' = payment_registrations \cup {row}
                  /\ resp' = Json(201, [success |-> TRUE,
                                        message |-> "Payment registration submitted successfully",
                                        referenceId |-> referenceId,
                                        data |-> row])
             ELSE /\ resp' = Failure(500, "Failed to submit payment registration")
                  /\ UNCHANGED payment_registrations
    /\ UNCHANGED <<rev, inflight, now, payment_links_columns, payment_links, clients,
                   clients_id_seq, client_links, contacts>>

----------------------------------------------------------------------------
(* PUT /api/admin/payments/:id/status *)

\* ['pending', 'verified', 'rejected']
StatusValues == {"pending", "verified", "rejected"}

\* the values req.body.status takes
StatusInputs == StatusValues \cup {"paid", undefined}

\* a path segment that is the text of an integer, and the integer: the store
\* parses the parameter compared with an INTEGER column and throws on other text
IsIntegerText(seg) == \E i \in 0..(MaxPayments + 1) : Digits(i) = seg
IntegerOf(seg) == CHOOSE i \in 0..(MaxPayments + 1) : Digits(i) = seg

\* the values the :id segment takes: the ids the sequence hands out, one more,
\* and a word
Word == <<"s", "e", "a", "r", "c", "h">>
IdSegments == {Digits(i) : i \in 1..(MaxPayments + 1)} \cup {Word}

\* a variant that leaves out the WHERE clause
UpdatePaymentStatusEverywhere(regs, id, status) ==
    {[p EXCEPT !.status = status] : p \in regs}

\* UPDATE payment_registrations SET status = $1 WHERE id = $2
UpdatePaymentStatus(regs, id, status) ==
    {IF p.id = id THEN [p EXCEPT !.status = status] ELSE p : p \in regs}

UpdateStatus(seg, status) ==
    /\ req' = [op |-> "update_status", id |-> seg, status |-> status]
    /\ IF status \notin StatusValues
       THEN /\ resp' = Failure(400, "Invalid status value")
            /\ queries' = 0
            /\ UNCHANGED payment_registrations
       ELSE /\ queries' = 1
            /\ IF ~ IsIntegerText(seg)
               THEN \* invalid input syntax for type integer: the query throws
                    /\ resp' = Failure(500, "Failed to update payment status")
                    /\ UNCHANGED payment_registrations
               ELSE LET id == IntegerOf(seg)
                        after == UpdatePaymentStatus(payment_registrations, id, status)
                    IN IF ~ \E p \in payment_registrations : p.id = id
                       THEN /\ resp' = Failure(404, "Payment registration not found")
                            /\ UNCHANGED payment_registrations
                       ELSE /\ payment_registrations' = after
                            /\ resp' = Json(200, [success |-> TRUE,
                                                  message |-> "Payment status updated",
                                                  payment |-> CHOOSE p \in after : p.id = id])
    /\ UNCHANGED <<rev, inflight, now, payment_links_columns, payment_links, clients,
                   clients_id_seq, client_links, payment_registrations_id_seq, contacts>>

----------------------------------------------------------------------------
(* Routing: Express tries the routes in the order they were registered *)

\* the words of the route paths, as text
W_health == <<"h", "e", "a", "l", "t", "h">>
W_api == <<"a", "p", "i">>
W_admin == <<"a", "d", "m", "i", "n">>
W_paymentLink == <<"p", "a", "y", "m", "e", "n", "t", "-", "l", "i", "n", "k">>
W_contact == <<"c", "o", "n", "t", "a", "c", "t">>
W_submit == <<"s", "u", "b", "m", "i", "t">>
W_contactsW == <<"c", "o", "n", "t", "a", "c", "t", "s">>
W_payment == <<"p", "a", "y", "m", "e", "n", "t">>
W_payments == <<"p", "a", "y", "m", "e", "n", "t", "s">>
W_statusW == <<"s", "t", "a", "t", "u", "s">>
W_search == <<"s", "e", "a", "r", "c", "h">>
W_clientsW == <<"c", "l", "i", "e", "n", "t", "s">>
W_clientLinks == <<"c", "l", "i", "e", "n", "t", "-", "l", "i", "n", "k", "s">>
W_clientDetails == <<"c", "l", "i", "e", "n", "t", "-", "d", "e", "t", "a", "i", "l", "s">>
W_idParam == <<":", "i", "d">>
W_tokenParam == <<":", "t", "o", "k", "e", "n">>

\* the routes of revision 2, in registration order (revision 1 registers the
\* same routes under /api/admin/payments in the same order)
Routes ==
    << [method |-> "GET", path |-> <<W_health>>, handler |-> "health"],
       [method |-> "GET", path |-> <<W_api, W_paymentLink, W_tokenParam>>, handler |-> "getPaymentLink"],
       [method |-> "PUT", path |-> <<W_api, W_admin, W_paymentLink, W_tokenParam>>, handler |-> "setLinkActive"],
       [method |-> "POST", path |-> <<W_api, W_contact, W_submit>>, handler |-> "submitContact"],
       [method |-> "GET", path |-> <<W_api, W_contactsW>>, handler |-> "listContacts"],
       [method |-> "POST", path |-> <<W_api, W_payment, W_submit>>, handler |-> "submitPayment"],
       [method |-> "GET", path |-> <<W_api, W_admin, W_payments>>, handler |-> "listPayments"],
       [method |-> "GET", path |-> <<W_api, W_admin, W_payments, W_idParam>>, handler |-> "getPayment"],
       [method |-> "PUT", path |-> <<W_api, W_admin, W_payments, W_idParam, W_statusW>>, handler |-> "updateStatus"],
       [method |-> "GET", path |-> <<W_api, W_admin, W_payments, W_search>>, handler |-> "searchPayments"],
       [method |-> "GET", path |-> <<W_api, W_admin, W_paymentLink, W_tokenParam>>, handler |-> "getAdminPaymentLink"],
       [method |-> "POST", path |-> <<W_api, W_admin, W_clientsW>>, handler |-> "createClient"],
       [method |-> "GET", path |-> <<W_api, W_admin, W_clientsW>>, handler |-> "listClients"],
       [method |-> "POST", path |-> <<W_api, W_admin, W_clientLinks>>, handler |-> "issueLink"],
       [method |-> "GET", path |-> <<W_api, W_clientDetails, W_tokenParam>>, handler |-> "clientDetails"] >>

\* a segment of a route path that begins with a colon is a parameter
IsParam(seg) == seg # <<>> /\ Head(seg) = ":"

\* a route's path matches a request path (a tuple of segments, each a text)
\* segment by segment; a parameter matches any one segment
Matches(pattern, path) ==
    /\ Len(pattern) = Len(path)
    /\ \A i \in 1..Len(pattern) : IsParam(pattern[i]) \/ pattern[i] = path[i]

\* the handler of the first route that matches
Dispatch(method, path) ==
    LET matching == {i \in 1..Len(Routes) :
                        Routes[i].method = method /\ Matches(Routes[i].path, path)}
    IN IF matching = {} THEN "none" ELSE Routes[Min(matching)].handler

----------------------------------------------------------------------------
(* GET /api/admin/payments *)

MaxPage == 2
MaxLimit == 2
DefaultPage == 1
DefaultLimit == 10

\* the orders ORDER BY created_at DESC can return a set of rows in
NewestFirst(rows) ==
    {o \in [1..Cardinality(rows) -> rows] :
        /\ \A i, j \in 1..Cardinality(rows) : i # j => o[i] # o[j]
        /\ \A i, j \in 1..Cardinality(rows) : i < j => o[i].created_at >= o[j].created_at}

\* LIMIT $n OFFSET $m of an ordered result
LimitOffset(rowsInOrder, limit, offset) ==
    SubSeq(rowsInOrder, offset + 1,
           IF offset + limit < Len(rowsInOrder) THEN offset + limit ELSE Len(rowsInOrder))

\* Math.ceil(a / b) for a >= 0, b > 0
Ceil(a, b) == (a + b - 1) \div b

\* the query string: page and limit are NULL when absent
ListQueries ==
    {[page |-> pg, limit |-> lm, status |-> st] :
        pg \in {NULL} \cup (1..MaxPage), lm \in {NULL} \cup (1..MaxLimit),
        st \in {undefined, "all", "verified"}}

ListPaymentsResponses(regs, q) ==
    LET page == IF q.page = NULL THEN DefaultPage ELSE q.page
        limit == IF q.limit = NULL THEN DefaultLimit ELSE q.limit
        offset == (page - 1) * limit
        filtered == IF q.status # undefined /\ q.status # "all"
                    THEN {p \in regs : p.status = q.status}
                    ELSE regs
    IN {LET rows == LimitOffset(o, limit, offset)
            \* COUNT(*) OVER() reaches the handler only on a returned row
            total == IF Len(rows) > 0 THEN Cardinality(filtered) ELSE 0
        IN Json(200, [success |-> TRUE,
                      payments |-> rows,
                      pagination |-> [total |-> total,
                                      totalPages |-> Ceil(total, limit),
                                      currentPage |-> page,
                                      limit |-> limit]])
        : o \in NewestFirst(filtered)}

----------------------------------------------------------------------------
(* GET /api/admin/payments/:id *)

GetPaymentResponse(regs, seg) ==
    IF ~ IsIntegerText(seg)
    THEN \* invalid input syntax for type integer: the query throws
         Failure(500, "Failed to fetch payment registration")
    ELSE LET rows == {p \in regs : p.id = IntegerOf(seg)}
         IN IF rows = {}
            THEN Failure(404, "Payment registration not found")
            ELSE Json(200, [success |-> TRUE, payment |-> CHOOSE p \in rows : TRUE])

----------------------------------------------------------------------------
(* GET /api/admin/payments/search *)

SearchLimit == 20

\* ILIKE compares without regard to case
Lower(c) ==
    CASE c = "A" -> "a" [] c = "P" -> "p" [] c = "Y" -> "y" [] c = "S" -> "s"
      [] OTHER -> c

Fold(cs) == [i \in 1..Len(cs) |-> Lower(cs[i])]

\* text ILIKE '%' || pattern || '%', for a pattern without % or _
ILikeContains(text, pattern) ==
    \E i \in 0..(Len(text) - Len(pattern)) :
        SubSeq(Fold(text), i + 1, i + Len(pattern)) = Fold(pattern)

\* the values req.query.query takes
SearchQueries ==
    {Undef, Str(<<>>), Str(<<"a", "c">>), Str(<<" ", "a", "c", " ">>), Str(<<"a", "c", "m">>)}

SearchResponses(regs, query) ==
    IF Falsy(query) \/ Len(Trim(query.chars)) < 3
    THEN {Failure(400, "Search query must be at least 3 characters")}
    ELSE LET found == {p \in regs :
                          \/ ILikeContains(p.client_name, query.chars)
                          \/ ILikeContains(p.project_name, query.chars)
                          \/ ILikeContains(p.client_id, query.chars)
                          \/ ILikeContains(p.reference_id, query.chars)}
         IN {Json(200, [success |-> TRUE, payments |-> LimitOffset(o, SearchLimit, 0)])
                : o \in NewestFirst(found)}

\* pool.query calls of the search handler
SearchQueryCalls(query) ==
    IF Falsy(query) \/ Len(Trim(query.chars)) < 3 THEN 0 ELSE 1

----------------------------------------------------------------------------
(* A GET request under /api/admin/payments *)

AdminPaymentsPaths ==
    {<<W_api, W_admin, W_payments>>}
        \cup {<<W_api, W_admin, W_payments, seg>> : seg \in IdSegments}

\* the query strings sent with a path
QueriesFor(path) ==
    IF Len(path) = 3 THEN ListQueries
    ELSE IF path[4] = Word THEN {[query |-> q] : q \in SearchQueries}
    ELSE {[query |-> Undef]}

GetAdminPayments(path, q) ==
    LET handler == Dispatch("GET", path)
    IN /\ req' = [op |-> "get", path |-> path, query |-> q, handler |-> handler]
       /\ CASE handler = "listPayments" ->
                 /\ resp' \in ListPaymentsResponses(payment_registrations, q)
                 /\ queries' = 1
            [] handler = "getPayment" ->
                 /\ resp' = GetPaymentResponse(payment_registrations, path[4])
                 /\ queries' = 1
            [] handler = "searchPayments" ->
                 /\ resp' \in SearchResponses(payment_registrations, q.query)
                 /\ queries' = SearchQueryCalls(q.query)
            [] OTHER ->
                 /\ resp' = Json(404, [success |-> FALSE])
                 /\ queries' = 0
       /\ UNCHANGED <<rev, inflight, now, store>>

----------------------------------------------------------------------------
(* POST /api/contact/submit *)

MaxContacts == 1      \* rows the contacts table can take

\* the widths of the VARCHAR columns of contacts; message is TEXT
NameWidth == 100
EmailWidth == 100
PhoneWidth == 20
SubjectWidth == 100

DigitChars == {"0", "1", "2", "3", "4", "5", "6", "7", "8", "9"}

\* /^[^\s@]+@[^\s@]+\.[^\s@]+$/.test(cs)
EmailMatches(cs) ==
    \E i, j \in 1..Len(cs) :
        /\ 1 < i /\ i + 1 < j /\ j < Len(cs)
        /\ cs[i] = "@"
        /\ cs[j] = "."
        /\ \A k \in 1..Len(cs) : k # i => cs[k] \notin Whitespace \cup {"@"}

\* /^[6-9]\d{9}$/.test(cs)
PhoneMatches(cs) ==
    /\ Len(cs) = 10
    /\ cs[1] \in {"6", "7", "8", "9"}
    /\ \A k \in 2..10 : cs[k] \in DigitChars

\* the error messages of the five checks
ContactMessages ==
    [name |-> "Name must be at least 3 characters",
     email |-> "Valid email is required",
     phone |-> "Valid 10-digit phone number starting with 6-9 is required",
     subject |-> "Please select a service",
     message |-> "Message must be at least 10 characters"]

\* a check calls .trim() on a value that is not a string and has none
Throws(body) ==
    \/ (~ Falsy(body.name) /\ body.name.type # "string")
    \/ (~ Falsy(body.message) /\ body.message.type # "string")

\* the fields whose check fails
ContactErrors(body) ==
    {f \in {"name", "email", "phone", "subject", "message"} :
        \/ f = "name" /\ (Falsy(body.name) \/ Len(Trim(body.name.chars)) < 3)
        \/ f = "email" /\ (Falsy(body.email) \/ ~ EmailMatches(body.email.chars))
        \/ f = "phone" /\ (Falsy(body.phone) \/ ~ PhoneMatches(body.phone.chars))
        \/ f = "subject" /\ Falsy(body.subject)
        \/ f = "message" /\ (Falsy(body.message) \/ Len(Trim(body.message.chars)) < 10)}

\* a text can be assigned to a VARCHAR(width) column: it is no longer than
\* width, or only spaces run over
Fits(cs, width) ==
    \A k \in 1..Len(cs) : k > width => cs[k] = " "

\* the value the column then holds
Stored(cs, width) == IF Len(cs) > width THEN SubSeq(cs, 1, width) ELSE cs

ContactInsertable(body) ==
    /\ Fits(body.name.chars, NameWidth)
    /\ Fits(body.email.chars, EmailWidth)
    /\ Fits(body.phone.chars, PhoneWidth)
    /\ Fits(body.subject.chars, SubjectWidth)

NewContact(id, body, t) ==
    [id |-> id,
     name |-> Stored(body.name.chars, NameWidth),
     email |-> Stored(body.email.chars, EmailWidth),
     phone |-> Stored(body.phone.chars, PhoneWidth),
     subject |-> Stored(body.subject.chars, SubjectWidth),
     message |-> body.message.chars,
     created_at |-> t]

\* the handler threw outside its try block: Express 4 leaves the request
\* unanswered, Express 5 answers 500
Unanswered == Json(0, [success |-> FALSE])
Uncaught == {Unanswered, Json(500, [success |-> FALSE])}

SubmitContact(body) ==
    /\ Len(contacts) < MaxContacts
    /\ req' = [op |-> "submit_contact", body |-> body]
    /\ IF Throws(body)
       THEN /\ resp' \in Uncaught
            /\ queries' = 0
            /\ UNCHANGED contacts
       ELSE IF ContactErrors(body) # {}
       THEN /\ resp' = Json(400, [errors |-> [f \in ContactErrors(body) |-> ContactMessages[f]]])
            /\ queries' = 0
            /\ UNCHANGED contacts
       ELSE /\ queries' = 1
            /\ IF ContactInsertable(body)
               THEN LET row == NewContact(Len(contacts) + 1, body, now)
                    IN /\ contacts' = Append(contacts, row)
                       /\ resp' = Json(201, [success |-> TRUE,
                                             message |-> "Form submitted successfully",
                                             data |-> row])
               ELSE \* value too long for type character varying: the insert throws
                    /\ resp' = Failure(500, "Failed to submit form")
                    /\ UNCHANGED contacts
    /\ UNCHANGED <<rev, inflight, now, payment_links_columns, payment_links, clients,
                   clients_id_seq, client_links, payment_registrations,
                   payment_registrations_id_seq>>

\* n copies of a character
Repeat(c, n) == [i \in 1..n |-> c]

\* the bodies of the contact form
NameInputs ==
    {Undef, Str(<<"J", "o">>), Str(<<"J", "o", " ">>), Str(<<"J", "o", "e">>),
     Str(Repeat("x", NameWidth + 1)), Num(<<"1", "2", "3">>)}
EmailInputs ==
    {Undef, Str(<<"j", "@", "x", ".", "i", "o">>), Str(<<"j", " ", "@", "x", ".", "i", "o">>)}
PhoneInputs ==
    {Str(<<"9">> \o Repeat("1", 9)), Str(<<"5">> \o Repeat("1", 9)),
     Str(<<"9">> \o Repeat("1", 10)), Num(<<"9">> \o Repeat("1", 9))}
SubjectInputs == {Undef, Str(<<>>), Str(<<"W", "e", "b">>)}
MessageInputs ==
    {Str(Repeat("m", 10)), Str(Repeat("m", 9)), Str(<<"h", "i">> \o Repeat(" ", 8))}

ContactBodies ==
    {[name |-> n, email |-> e, phone |-> ph, subject |-> sb, message |-> m] :
        n \in NameInputs, e \in EmailInputs, ph \in PhoneInputs,
        sb \in SubjectInputs, m \in MessageInputs}

----------------------------------------------------------------------------
(* POST /api/payment/submit, request by request: the handler runs to its await,
   the store executes the INSERT at some later point, and the handler resumes
   with the result or the error.  Other requests run in between. *)

\* the requests of this route still to be inserted
AwaitingInsert == {s \in Slots : inflight[s].pc = "insert"}

\* lines 721-729: the handler draws its reference id and sends the INSERT
BeginSubmitPayment(s, body, randomString) ==
    /\ inflight[s] = Waiting
    /\ payment_registrations_id_seq + Cardinality(AwaitingInsert) < MaxPayments
    /\ inflight' = [inflight EXCEPT ![s] =
                       [pc |-> "insert", body |-> body,
                        referenceId |-> ReferenceId(FullYear(now), randomString)]]
    /\ req' = [op |-> "begin_submit_payment", slot |-> s, body |-> body]
    /\ resp' = Idle
    /\ queries' = 0
    /\ UNCHANGED <<rev, now, store>>

\* lines 729-735: the store executes the INSERT, one statement, atomically
StoreInsertPayment(s) ==
    /\ inflight[s].pc = "insert"
    /\ LET body == inflight[s].body
           referenceId == inflight[s].referenceId
           row == NewPayment(payment_registrations_id_seq + 1, body, referenceId, now)
       IN /\ payment_registrations_id_seq' = payment_registrations_id_seq + 1
          /\ IF PaymentInsertable(payment_registrations, body, referenceId)
             THEN /\ payment_registrations' = payment_registrations \cup {row}
                  /\ inflight' = [inflight EXCEPT ![s] =
                                     [pc |-> "inserted", body |-> body,
                                      referenceId |-> referenceId, row |-> row]]
             ELSE /\ UNCHANGED payment_registrations
                  /\ inflight' = [inflight EXCEPT ![s] =
                                     [pc |-> "threw", body |-> body,
                                      referenceId |-> referenceId]]
    /\ req' = [op |-> "store_insert_payment", slot |-> s]
    /\ resp' = Idle
    /\ queries' = 1
    /\ UNCHANGED <<rev, now, payment_links_columns, payment_links, clients,
                   clients_id_seq, client_links, contacts>>

\* lines 737-749: the handler resumes and answers
RespondSubmitPayment(s) ==
    /\ inflight[s].pc \in {"inserted", "threw"}
    /\ req' = [op |-> "respond_submit_payment", slot |-> s, body |-> inflight[s].body]
    /\ resp' = IF inflight[s].pc = "inserted"
               THEN Json(201, [success |-> TRUE,
                               message |-> "Payment registration submitted successfully",
                               referenceId |-> inflight[s].referenceId,
                               data |-> inflight[s].row])
               ELSE Failure(500, "Failed to submit payment registration")
    /\ queries' = 0
    /\ inflight' = [inflight EXCEPT ![s] = Waiting]
    /\ UNCHANGED <<rev, now, store>>

NextSubmit ==
    \/ \E s \in Slots, b \in PaymentBodies, r \in RandomStrings : BeginSubmitPayment(s, b, r)
    \/ \E s \in Slots : StoreInsertPayment(s)
    \/ \E s \in Slots : RespondSubmitPayment(s)

SpecSubmit == Init /\ [][NextSubmit]_vars

----------------------------------------------------------------------------
(* GET /api/client-details/:token, request by request: the handler awaits three
   queries one after the other, and the store executes each at its own instant.
   Other requests and the clock run in between. *)

\* lines 1034-1049: the store executes the link lookup
LinkLookup(s, token) ==
    /\ rev = 2
    /\ inflight[s] = Waiting
    /\ LET linkRows == UsableLinks(client_links, token, now)
       IN inflight' = [inflight EXCEPT ![s] =
              IF linkRows = {}
              THEN [pc |-> "respond", token |-> token,
                    result |-> Failure(404, "Link not found or expired")]
              ELSE [pc |-> "client", token |-> token,
                    link |-> CHOOSE l \in linkRows : TRUE]]   \* token is UNIQUE
    /\ req' = [op |-> "link_lookup", slot |-> s, token |-> token]
    /\ resp' = Idle
    /\ queries' = 1
    /\ UNCHANGED <<rev, now, store>>

\* lines 1052-1064: the store executes the client lookup
ClientLookup(s) ==
    /\ inflight[s].pc = "client"
    /\ LET clientRows == ClientsById(clients, inflight[s].link.client_id)
       IN inflight' = [inflight EXCEPT ![s] =
              IF clientRows = {}
              THEN [pc |-> "respond", token |-> inflight[s].token,
                    result |-> Failure(404, "Client not found")]
              ELSE [pc |-> "payment", token |-> inflight[s].token,
                    link |-> inflight[s].link,
                    client |-> CHOOSE c \in clientRows : TRUE]]   \* id is the key
    /\ req' = [op |-> "client_lookup", slot |-> s]
    /\ resp' = Idle
    /\ queries' = 1
    /\ UNCHANGED <<rev, now, store>>

\* lines 1067-1073: the store executes the payment lookup
PaymentLookup(s) ==
    /\ inflight[s].pc = "payment"
    /\ LET paymentRows == LatestPayments(payment_registrations, inflight[s].client.id)
       IN \/ /\ paymentRows = {}
             /\ inflight' = [inflight EXCEPT ![s] =
                    [pc |-> "details", token |-> inflight[s].token,
                     link |-> inflight[s].link, client |-> inflight[s].client,
                     paymentRows |-> <<>>]]
          \/ \E p \in paymentRows :
                inflight' = [inflight EXCEPT ![s] =
                    [pc |-> "details", token |-> inflight[s].token,
                     link |-> inflight[s].link, client |-> inflight[s].client,
                     paymentRows |-> <<p>>]]
    /\ req' = [op |-> "payment_lookup", slot |-> s]
    /\ resp' = Idle
    /\ queries' = 1
    /\ UNCHANGED <<rev, now, store>>

\* lines 1075-1090, and the early returns of 1043 and 1058: the handler answers
RespondVerify(s) ==
    /\ inflight[s].pc \in {"respond", "details"}
    /\ req' = [op |-> "respond_verify", slot |-> s, token |-> inflight[s].token]
    /\ resp' = IF inflight[s].pc = "respond" THEN inflight[s].result
               ELSE IF inflight[s].paymentRows = <<>>
               THEN ClientDetails(inflight[s].client, NewProject, DefaultAmount,
                                  now + DefaultDueDays * TicksPerDay)
               ELSE LET p == inflight[s].paymentRows[1]
                    IN ClientDetails(inflight[s].client,
                                     IF p.project_name = <<>> THEN NewProject
                                                              ELSE p.project_name,
                                     p.amount, p.due_date)
    /\ queries' = 0
    /\ inflight' = [inflight EXCEPT ![s] = Waiting]
    /\ UNCHANGED <<rev, now, store>>

\* the tokens and the clients of the verifications in flight
TokensInFlight == {inflight[s].token : s \in {x \in Slots : inflight[x] # Waiting}}

\* a token no link has and a reference id no registration has: which of the
\* unused values the generators return makes no difference to a verification
FreshToken == [kind |-> "hex", n |-> Cardinality(client_links) + 1]
FreshRandomString == Digits(Cardinality(payment_registrations) + 1)

\* the ids, as the payment form sends them, of the clients whose link a
\* verification in flight has found
ClientIdsInFlight ==
    {Num(Digits(inflight[s].link.client_id)) :
        s \in {x \in Slots : inflight[x].pc \in {"client", "payment", "details"}}}

\* one verification at a time, among the requests that write what it reads:
\* clients and links before it, and the clock, deactivation requests for its
\* token and submissions for its client while it is in flight
NextVerify ==
    \/ Tick
    \/ \E t \in TokensInFlight : SetLinkActive(t, FALSE)
    \/ \E n \in ClientNames : TokensInFlight = {} /\ CreateClient(n)
    \/ \E c \in ClientIdInputs :
          /\ TokensInFlight = {}
          /\ FreshToken \in HexTokens
          /\ IssueLink(c, FreshToken)
    \/ \E b \in PaymentBodies :
          /\ b.clientId \in ClientIdsInFlight
          /\ b.clientName # Undef
          /\ FreshRandomString \in RandomStrings
          /\ SubmitPayment(b, FreshRandomString)
    \/ \E t \in HexTokens : inflight = [s \in Slots |-> Waiting] /\ LinkLookup(1, t)
    \/ \E s \in Slots : ClientLookup(s)
    \/ \E s \in Slots : PaymentLookup(s)
    \/ \E s \in Slots : RespondVerify(s)

SpecVerify == Init /\ [][NextVerify]_vars

----------------------------------------------------------------------------
(* Process starts among admin operations *)

NextRestart ==
    \/ \E r \in Revisions : Start(r)
    \/ \E t \in Tokens, a \in BOOLEAN : SetLinkActive(t, a)
    \/ \E t \in Tokens : GetPaymentLink(t)
    \/ \E n \in ClientNames : CreateClient(n)
    \/ \E c \in ClientIdInputs : FreshToken \in HexTokens /\ IssueLink(c, FreshToken)
    \/ \E b \in PaymentBodies :
          FreshRandomString \in RandomStrings /\ SubmitPayment(b, FreshRandomString)

SpecRestart == Init /\ [][NextRestart]_vars

----------------------------------------------------------------------------
(* The client-link service *)

Next ==
    \/ Tick
    \/ \E t \in Tokens, a \in BOOLEAN : SetLinkActive(t, a)
    \/ \E t \in Tokens : GetPaymentLink(t)
    \/ \E n \in ClientNames : CreateClient(n)
    \/ ListClients
    \/ \E c \in ClientIdInputs, t \in HexTokens : IssueLink(c, t)
    \/ \E t \in Tokens : VerifyLink(t)

Spec == Init /\ [][Next]_vars

----------------------------------------------------------------------------
(* The payment administration *)

\* the routes that write payment_registrations
NextPayments ==
    \/ \E b \in PaymentBodies, r \in RandomStrings : SubmitPayment(b, r)
    \/ \E seg \in IdSegments, st \in StatusInputs : UpdateStatus(seg, st)

SpecPayments == Init /\ [][NextPayments]_vars

\* with the routes that read it
NextAdminGet ==
    \/ \E b \in PaymentBodies, r \in RandomStrings : SubmitPayment(b, r)
    \/ \E seg \in IdSegments, st \in StatusInputs : UpdateStatus(seg, st)
    \/ \E path \in AdminPaymentsPaths : \E q \in QueriesFor(path) : GetAdminPayments(path, q)

SpecAdminGet == Init /\ [][NextAdminGet]_vars

----------------------------------------------------------------------------
(* Claims about client links, checked under Spec *)

\* the link row a token names (token is UNIQUE)
LinkOf(token) == {l \in client_links : l.token = token}

\* C1: GET /api/client-details/:token succeeds if and only if a client_links row
\* with that token exists, is active, and has expires_at strictly greater than now.
C1_VerifyIffUsable ==
    req.op = "verify_link" =>
        (resp.status = 200 <=>
            \E l \in client_links :
                l.token = req.token /\ l.active = TRUE /\ l.expires_at > now)

\* C2: after set_link_active(token, false) on the token of an issued, unexpired
\* client link, verification of that token fails with 404: the operation acts on
\* the link record verification reads.
C2_DeactivatedLinkFails ==
    (/\ req.op = "set_link_active"
     /\ req.active = FALSE
     /\ \E l \in LinkOf(req.token) : l.client_id # NULL /\ l.expires_at > now)
    => \A r \in VerifyResponses(client_links, clients, payment_registrations,
                                 req.token, now) : r.status = 404

\* C3: a successful issuance inserts exactly one new row under a token no stored
\* link has and leaves every stored link row unchanged; after it, every unexpired
\* link of that existing client, earlier ones included, verifies and resolves to
\* that client.
C3_IssueKeepsEarlierLinks ==
    [][(req'.op = "issue_link" /\ resp'.status = 201) =>
          /\ client_links \subseteq client_links'
          /\ Cardinality(client_links') = Cardinality(client_links) + 1
          /\ \A l \in client_links : l.token # resp'.body.token
          /\ req'.clientId # NULL =>
                \A l \in client_links' :
                    (l.client_id = req'.clientId /\ l.expires_at > now') =>
                        \A r \in VerifyResponses(client_links', clients',
                                                   payment_registrations', l.token, now') :
                            r.status = 200 /\ r.body.client.clientId = req'.clientId
      ]_vars

\* C3 witness: the second link of a client has just been issued while the first
\* is unexpired, the two under different tokens.
C3_Witness ==
    /\ req.op = "issue_link"
    /\ resp.status = 201
    /\ req.clientId # NULL
    /\ \E l1, l2 \in client_links :
         /\ l1.token # l2.token
         /\ l2.token = resp.body.token
         /\ l1.client_id = req.clientId /\ l2.client_id = req.clientId
         /\ l1.expires_at > now

\* C4: every successful issue_link stores an active link expiring one day after
\* issuance and returns the stored token and expiry; the link verifies at every
\* time before its expiry and at no time from its expiry on.
C4_IssuedLinkVerifiesForADay ==
    /\ (req.op = "issue_link" /\ resp.status = 201) =>
          \E l \in LinkOf(resp.body.token) :
              /\ l.active = TRUE
              /\ l.expires_at = now + ExpiryDays * TicksPerDay
              /\ resp.body.expiresAt = l.expires_at
              /\ resp.body.token = req.token
    /\ req.op = "verify_link" =>
          \A l \in LinkOf(req.token) :
              resp.status = 200 <=> now < l.created_at + ExpiryDays * TicksPerDay

\* C5: every failed verification produces the same response, 404 'Link not found
\* or expired', whatever makes the token unusable.
C5_OneFailureResponse ==
    (req.op = "verify_link" /\ resp.status # 200) =>
        resp = Failure(404, "Link not found or expired")

\* C6: setting the active flag for a token that no link has returns 404 and
\* leaves every row of every table unchanged.
C6_UnknownTokenIs404 ==
    [][(/\ req'.op = "set_link_active"
        /\ \A l \in payment_links : l.token # req'.token
        /\ \A l \in client_links : l.token # req'.token)
       => (resp'.status = 404 /\ UNCHANGED store)]_vars

----------------------------------------------------------------------------
(* The contact form *)

NextContact ==
    /\ Len(contacts) < MaxContacts
    /\ \E b \in ContactBodies : SubmitContact(b)

SpecContact == Init /\ [][NextContact]_vars

----------------------------------------------------------------------------
(* Claims about the payment administration *)

SearchPath == <<W_api, W_admin, W_payments, W_search>>

\* C8: GET /api/admin/payments/search with a query of fewer than 3 characters
\* after trimming, or none, is dispatched to the search handler, answered 400,
\* and makes no store query.  (SpecAdminGet)
C8_ShortSearchIs400 ==
    (/\ req.op = "get"
     /\ req.path = SearchPath
     /\ (Falsy(req.query.query) \/ Len(Trim(req.query.query.chars)) < 3))
    => (req.handler = "searchPayments" /\ resp.status = 400 /\ queries = 0)

\* the rows matching the status filter of a list request
Matching(q) ==
    IF q.status # undefined /\ q.status # "all"
    THEN {p \in payment_registrations : p.status = q.status}
    ELSE payment_registrations

\* C9: for page p >= 1, limit l >= 1 and N registrations matching the filter,
\* GET /api/admin/payments returns min(l, max(0, N - (p-1)*l)) rows with
\* total = N and totalPages = ceil(N / l), also for a page beyond the last.
\* (SpecAdminGet)
C9_Pagination ==
    (req.op = "get" /\ Len(req.path) = 3 /\ req.query.page # NULL /\ req.query.limit # NULL)
    => LET p == req.query.page
           l == req.query.limit
           N == Cardinality(Matching(req.query))
           rest == IF N - (p - 1) * l > 0 THEN N - (p - 1) * l ELSE 0
       IN /\ resp.status = 200
          /\ Len(resp.body.payments) = (IF l < rest THEN l ELSE rest)
          /\ resp.body.pagination.total = N
          /\ resp.body.pagination.totalPages = Ceil(N, l)

\* C10: every registration's status is pending, verified or rejected; it is
\* pending at creation; PUT /api/admin/payments/:id/status with another value is
\* a 400 and changes no row, with a valid value for an integer id no row has is
\* a 404 and changes no row, and with a valid value for a stored id changes that
\* row's status and nothing else.  (SpecPayments)
C10_StatusDomain ==
    /\ [](\A p \in payment_registrations : p.status \in {"pending", "verified", "rejected"})
    /\ [][/\ (req'.op = "submit_payment" /\ resp'.status = 201) =>
                /\ resp'.body.data.status = "pending"
                /\ payment_registrations' = payment_registrations \cup {resp'.body.data}
          /\ (req'.op = "update_status"
                /\ req'.status \notin {"pending", "verified", "rejected"}) =>
                (resp'.status = 400 /\ UNCHANGED store)
          /\ (req'.op = "update_status"
                /\ req'.status \in {"pending", "verified", "rejected"}
                /\ IsIntegerText(req'.id)) =>
                IF \E p \in payment_registrations : Digits(p.id) = req'.id
                THEN /\ resp'.status = 200
                     /\ \A p \in payment_registrations :
                          IF Digits(p.id) = req'.id
                          THEN [p EXCEPT !.status = req'.status] \in payment_registrations'
                          ELSE p \in payment_registrations'
                     /\ Cardinality(payment_registrations') = Cardinality(payment_registrations)
                     /\ UNCHANGED <<payment_links_columns, payment_links, clients,
                                    clients_id_seq, client_links,
                                    payment_registrations_id_seq, contacts>>
                ELSE resp'.status = 404 /\ UNCHANGED store
       ]_vars

\* C10 witness: of two stored registrations one has just been set to verified
\* and the other is still pending.
C10_Witness ==
    /\ req.op = "update_status"
    /\ resp.status = 200
    /\ \E p, q \in payment_registrations :
         /\ Digits(p.id) = req.id /\ p.status = "verified"
         /\ q.id # p.id /\ q.status = "pending"

----------------------------------------------------------------------------
(* Claims about the contact form *)

\* every field of a body is a string or missing
TextBody(body) ==
    \A f \in {"name", "email", "phone", "subject", "message"} :
        body[f].type \in {"string", "undefined"}

\* the fields of a body that fail the five checks: name of fewer than 3
\* characters, email not of the pattern, phone not [6-9] and 9 digits, subject
\* empty, message of fewer than 10 characters (lengths after trimming)
Violated(body) ==
    {f \in {"name", "email", "phone", "subject", "message"} :
        \/ f = "name" /\ Len(Trim(body.name.chars)) < 3
        \/ f = "email" /\ ~ EmailMatches(body.email.chars)
        \/ f = "phone" /\ ~ PhoneMatches(body.phone.chars)
        \/ f = "subject" /\ body.subject.chars = <<>>
        \/ f = "message" /\ Len(Trim(body.message.chars)) < 10}

\* C7: POST /api/contact/submit returns 201 and inserts exactly one contacts row
\* when all five field checks pass; otherwise it returns 400 with an errors key
\* for exactly each violated field and inserts no row.  Stated for the bodies
\* whose fields are strings or missing.  (SpecContact)
C7_ContactSubmit ==
    [][(req'.op = "submit_contact" /\ TextBody(req'.body)) =>
          IF Violated(req'.body) = {}
          THEN /\ resp'.status = 201
               /\ Len(contacts') = Len(contacts) + 1
               /\ SubSeq(contacts', 1, Len(contacts)) = contacts
          ELSE /\ resp'.status = 400
               /\ DOMAIN resp'.body.errors = Violated(req'.body)
               /\ contacts' = contacts
      ]_vars

----------------------------------------------------------------------------
(* Claims about token uniqueness *)

\* C11: client-link tokens are unique across the stored links in every
\* reachable state; an issuance whose generated token is that of a stored link
\* is answered 500 and leaves every stored link (client, active flag, expiry)
\* as it was: nothing is overwritten or rebound.  (Spec)
C11_TokensUnique ==
    /\ [](\A l1, l2 \in client_links : l1.token = l2.token => l1 = l2)
    /\ [][(req'.op = "issue_link" /\ \E l \in client_links : l.token = req'.token)
             => (resp'.status = 500 /\ client_links' = client_links)]_vars

\* C11 witness: an issuance for a stored client drew the token of a link stored
\* for no client, and failed; the stored link is still the only one.
C11_Witness ==
    /\ req.op = "issue_link"
    /\ resp.status = 500
    /\ \E c \in clients : c.id = req.clientId
    /\ \E l \in client_links : l.token = req.token /\ l.client_id # req.clientId

\* C12: under any interleaving of POST /api/payment/submit requests no two
\* stored registrations share a reference_id; a submission whose reference id
\* is stored already when its INSERT executes inserts nothing, is answered 500
\* and sends no second INSERT; a 201 carries the reference_id of the one row
\* that submission inserted.  (SpecSubmit)
C12_ReferenceIdsUnique ==
    /\ [](\A p, q \in payment_registrations : p.reference_id = q.reference_id => p = q)
    /\ [][\A s \in Slots :
             /\ (inflight[s].pc = "insert" /\ inflight'[s] # inflight[s]) =>
                   IF \E p \in payment_registrations :
                          p.reference_id = inflight[s].referenceId
                   THEN /\ inflight'[s].pc = "threw"
                        /\ payment_registrations' = payment_registrations
                   ELSE inflight'[s].pc \in {"inserted", "threw"}
             /\ (inflight[s].pc = "threw" /\ inflight'[s] # inflight[s]) =>
                   /\ inflight'[s] = Waiting
                   /\ resp'.status = 500
                   /\ payment_registrations' = payment_registrations
             /\ (inflight[s].pc = "inserted" /\ inflight'[s] # inflight[s]) =>
                   /\ resp'.status = 201
                   /\ resp'.body.referenceId = resp'.body.data.reference_id
                   /\ resp'.body.data \in payment_registrations
                   /\ resp'.body.data = inflight[s].row
                   /\ payment_registrations' = payment_registrations
             /\ (inflight[s].pc # "inserted" /\ inflight'[s].pc = "inserted") =>
                   /\ inflight[s].pc = "insert"
                   /\ payment_registrations' =
                          payment_registrations \cup {inflight'[s].row}
                   /\ inflight'[s].row \notin payment_registrations
                   /\ inflight'[s].row.reference_id = inflight[s].referenceId
      ]_vars

\* C12 witness: two requests drew the same reference id while both were in
\* flight; the store has executed both INSERTs, one inserted and one threw.
C12_Witness ==
    \E s, t \in Slots :
        /\ inflight[s].pc = "inserted"
        /\ inflight[t].pc = "threw"
        /\ inflight[t].body.clientName.type # "undefined"
        /\ inflight[s].referenceId = inflight[t].referenceId

----------------------------------------------------------------------------
(* Claims about the legacy payment link, checked under Spec *)

\* C13: GET /api/payment-link/:token for a stored token (the legacy token)
\* returns 200 with active equal to the active flag stored in that row, so
\* false after a deactivation and true again after a reactivation; for a token
\* that is not stored it returns 404.
C13_LegacyStatusIsStoredFlag ==
    req.op = "get_payment_link" =>
        IF \E l \in payment_links : l.token = req.token
        THEN /\ resp.status = 200
             /\ \A l \in payment_links :
                    (l.token = req.token /\ "active" \in DOMAIN l) =>
                        resp.body.active = l.active
        ELSE resp.status = 404

----------------------------------------------------------------------------
(* Claims about expiry, checked under Spec *)

\* C14: no operation other than an explicit set_link_active changes a stored
\* link's row; the passing of time and verifications, successful or failed,
\* leave client_links as it is; a link past its expires_at is still stored with
\* active = true and its verification is rejected, by the expiry comparison.
C14_ExpiryChangesNoRow ==
    /\ [][/\ req'.op # "set_link_active" => \A l \in client_links : l \in client_links'
          /\ (req'.op = "verify_link" \/ now' # now) => client_links' = client_links
         ]_vars
    /\ [](req.op = "verify_link" =>
            \A l \in client_links :
                (l.token = req.token /\ l.expires_at <= now) =>
                    (l.active = TRUE /\ resp = Failure(404, "Link not found or expired")))

\* C14 witness: a client's link verified before its expiry has now been
\* refused after it, and is still stored as active.
C14_Witness ==
    /\ req.op = "verify_link"
    /\ resp.status = 404
    /\ \E l \in client_links :
         /\ l.token = req.token
         /\ l.active = TRUE
         /\ l.expires_at <= now
         /\ \E c \in clients : c.id = l.client_id

----------------------------------------------------------------------------
(* Claims about verification among other requests, checked under SpecVerify *)

\* C15: verification makes its link lookup, client lookup and payment lookup
\* as three separate reads, one step each, and a 200 comes only after all
\* three; the link it answers for was stored, active and unexpired at the
\* instant of the link lookup, and the client answered is that link's client.
\* Nothing holds the store still in between: see the witness.
C15_ThreeSeparateReads ==
    [][\A s \in Slots :
          /\ (inflight[s] = Waiting /\ inflight'[s] # Waiting) =>
                /\ inflight'[s].pc \in {"client", "respond"}
                /\ inflight'[s].pc = "client" =>
                      LET l == inflight'[s].link
                      IN /\ l \in client_links
                         /\ l.token = inflight'[s].token
                         /\ l.active = TRUE
                         /\ l.expires_at > now
          /\ (inflight[s].pc = "client" /\ inflight'[s] # inflight[s]) =>
                /\ inflight'[s].pc \in {"payment", "respond"}
                /\ inflight'[s].pc = "payment" =>
                      /\ inflight'[s].link = inflight[s].link
                      /\ inflight'[s].client \in clients
          /\ (inflight[s].pc = "payment" /\ inflight'[s] # inflight[s]) =>
                /\ inflight'[s].pc = "details"
                /\ inflight'[s].link = inflight[s].link
                /\ inflight'[s].client = inflight[s].client
                /\ \A i \in 1..Len(inflight'[s].paymentRows) :
                      inflight'[s].paymentRows[i] \in payment_registrations
          /\ (inflight[s].pc \in {"details", "respond"} /\ inflight'[s] # inflight[s]) =>
                /\ inflight'[s] = Waiting
                /\ req'.token = inflight[s].token
                /\ resp'.status = 200 <=> inflight[s].pc = "details"
                /\ resp'.status = 200 =>
                      /\ inflight[s].link.token = req'.token
                      /\ resp'.body.client.clientId = inflight[s].link.client_id
          /\ (inflight[s] # Waiting /\ inflight'[s] # inflight[s]) => UNCHANGED store
      ]_vars

\* C15 witness: a 200 has just been produced for a link that expired while
\* the verification was in flight, with the amount of a registration that was
\* submitted after the link had expired, so after the link lookup.
C15_Witness ==
    /\ req.op = "respond_verify"
    /\ resp.status = 200
    /\ resp.body.client.amount # DefaultAmount
    /\ \E l \in client_links :
         /\ l.token = req.token
         /\ l.expires_at <= now
         /\ \A p \in payment_registrations : p.created_at >= l.expires_at

----------------------------------------------------------------------------
(* Claims about the client listing, checked under Spec *)

\* the rows of a listing that are of client c
RowsOf(listing, c) == {i \in 1..Len(listing) : listing[i].id = c.id}

\* C16: GET /api/admin/clients lists every client, in max(1, k) rows where k
\* is the number of the client's links that are active and unexpired at the
\* time of the query: one row for each such link, with its token, or one row
\* with null token fields when k = 0; the token of a link that is inactive or
\* expired is in no row.
C16_ClientListing ==
    req.op = "list_clients" =>
        /\ resp.status = 200
        /\ \A i \in 1..Len(resp.body.clients) :
              /\ \E c \in clients : c.id = resp.body.clients[i].id
              /\ resp.body.clients[i].link # <<>> =>
                    \E l \in client_links :
                        /\ l.token = resp.body.clients[i].link[1].active_token
                        /\ l.client_id = resp.body.clients[i].id
                        /\ l.active = TRUE
                        /\ l.expires_at > now
        /\ \A c \in clients :
              LET usable == {l \in client_links :
                                l.client_id = c.id /\ l.active = TRUE /\ l.expires_at > now}
                  k == Cardinality(usable)
              IN /\ Cardinality(RowsOf(resp.body.clients, c)) = (IF k > 1 THEN k ELSE 1)
                 /\ k = 0 => \A i \in RowsOf(resp.body.clients, c) :
                                 resp.body.clients[i].link = <<>>
                 /\ \A l \in usable : \E i \in RowsOf(resp.body.clients, c) :
                        /\ resp.body.clients[i].link # <<>>
                        /\ resp.body.clients[i].link[1].active_token = l.token

\* C16 witness: a client with one expired link and one unexpired link has
\* just been listed.
C16_Witness ==
    /\ req.op = "list_clients"
    /\ \E c \in clients : \E l1, l2 \in client_links :
          /\ l1.client_id = c.id /\ l2.client_id = c.id
          /\ l1.expires_at <= now
          /\ l2.expires_at > now

----------------------------------------------------------------------------
(* Claims about initialisation, checked under SpecRestart *)

\* C17: whatever process starts and admin operations have happened, the store
\* holds exactly one payment_links row with the fixed token; a start adds no
\* second one, leaves that row's active flag as it is (a legacy link
\* deactivated before the start is inactive after it) and changes no row of
\* any other table.
C17_InitialisationIdempotent ==
    /\ [](Cardinality({l \in payment_links : l.token = LegacyToken}) = 1)
    /\ [][req'.op = "start" => UNCHANGED store]_vars

\* C17 witness: a process has just started on a store whose legacy link had
\* been deactivated and that holds a client and a client link.
C17_Witness ==
    /\ req.op = "start"
    /\ \E l \in payment_links :
          l.token = LegacyToken /\ "active" \in DOMAIN l /\ l.active = FALSE
    /\ clients # {}
    /\ client_links # {}

====
